---- MODULE Spec2Model ----
(***************************************************************************)
(* Robust grading data model: lms/djangoapps/grades/models.py              *)
(*                                                                         *)
(* BlockRecordSet (canonical JSON and content hash), the VisibleBlocks     *)
(* content-addressed table, and the PersistentSubsectionGrade table with   *)
(* its create / update / save_grade / read operations, run by concurrent   *)
(* workers against one storage engine.                                     *)
(*                                                                         *)
(* Storage engine: the one the source is written against (models.py        *)
(* 263-265): transactions under repeatable read.  A transaction's plain    *)
(* SELECTs read the snapshot taken by its first read plus its own writes;  *)
(* INSERT and UPDATE act on the latest committed data, wait for a          *)
(* conflicting uncommitted write of another transaction, and enforce the   *)
(* unique and foreign-key constraints the models declare.                  *)
(***************************************************************************)
EXTENDS Integers, Sequences, FiniteSets, TLC

\* ------------------------------------------------------------------ bounds
\* Number of calls the workers start in one behaviour.
MaxCalls == 3

\* ------------------------------------------------------------ input domain
Workers == {"w1", "w2"}

UserIds == {42}

UsageKeys == {"seq1", "seq2"}

\* usage_key.course_key (models.py 158): the course a subsection belongs to.
course_key(usage_key) ==
    CASE usage_key = "seq1" -> "course1"
      [] usage_key = "seq2" -> "course1"

\* BlockRecord = namedtuple('BlockRecord', ['locator', 'weight', 'max_score'])
BlockRecord(locator, weight, max_score) ==
    [locator |-> locator, weight |-> weight, max_score |-> max_score]

\* Order of the locator strings ("b1" < "b2"), as str comparison gives it.
LocatorRank(locator) ==
    CASE locator = "b1" -> 1
      [] locator = "b2" -> 2

\* A BlockRecordSet object is a frozenset: a set of records together with
\* the iteration order of that particular object, which CPython fixes from
\* the members' hashes and the order of insertion.  The object is modelled
\* as the sequence of its distinct members in iteration order; two objects
\* are value-equal when they have the same members.
Members(blocks) == {blocks[i] : i \in 1..Len(blocks)}

\* Visible-block arguments the workers pass: a set of two blocks, and two
\* value-equal objects that differ in iteration order and whose members
\* share one locator.
BlockSets ==
    { << BlockRecord("b1", 1, 10), BlockRecord("b2", 1, 5) >>,
      << BlockRecord("b1", 1, 10), BlockRecord("b1", 2, 10) >>,
      << BlockRecord("b1", 2, 10), BlockRecord("b1", 1, 10) >> }

\* Score and provenance arguments of create / update / save_grade: each
\* worker's requests carry its own values, so that any two workers write
\* rows that differ in every field.
GradeArgs(w) ==
    CASE w = "w1" ->
           [course_version |-> "v1", subtree_edited_date |-> 1,
            earned_all |-> 8, possible_all |-> 10,
            earned_graded |-> 7, possible_graded |-> 9]
      [] w = "w2" ->
           [course_version |-> "v2", subtree_edited_date |-> 2,
            earned_all |-> 6, possible_all |-> 12,
            earned_graded |-> 5, possible_graded |-> 11]

Ops == {"create", "update", "save_grade", "create_from_blockrecords"}

\* ------------------------------------------------------- BlockRecordSet
\* Insert a record into a list already sorted by locator, after every
\* record whose locator is not larger: sorted() is stable, so records with
\* equal locators keep their iteration order.
RECURSIVE InsertByLocator(_, _)
InsertByLocator(sorted, block) ==
    IF sorted = << >> THEN << block >>
    ELSE IF LocatorRank(Head(sorted).locator) <= LocatorRank(block.locator)
         THEN << Head(sorted) >> \o InsertByLocator(Tail(sorted), block)
         ELSE << block >> \o sorted

\* sorted(self, key=attrgetter('locator'))
RECURSIVE SortedByLocator(_)
SortedByLocator(blocks) ==
    IF blocks = << >> THEN << >>
    ELSE InsertByLocator(SortedByLocator(SubSeq(blocks, 1, Len(blocks) - 1)),
                         blocks[Len(blocks)])

\* json.dumps(block._asdict(), sort_keys=True): the object's members in key
\* order, locator < max_score < weight.
DumpBlock(block) ==
    << << "locator", block.locator >>,
       << "max_score", block.max_score >>,
       << "weight", block.weight >> >>

\* BlockRecordSet.to_json: the JSON array, as the list of its objects.
to_json(blocks) ==
    [i \in 1..Len(blocks) |-> DumpBlock(SortedByLocator(blocks)[i])]

\* b64encode(sha256(text).digest()): a collision-free digest of the text.
Sha256Base64(text) == << "sha256", text >>

\* Mutant of to_hash: the digest is taken over the records dumped in the
\* reverse of the iteration order instead of over to_json().
to_hashOfUnsortedDump(blocks) ==
    Sha256Base64([i \in 1..Len(blocks) |->
                     DumpBlock(blocks[Len(blocks) + 1 - i])])

\* BlockRecordSet.to_hash
to_hash(blocks) == Sha256Base64(to_json(blocks))

\* Mutant of LoadBlock: the record is built from the object's values in key
\* order (BlockRecord(*values)) instead of by keyword.
LoadBlockPositional(object) ==
    BlockRecord(object[1][2], object[2][2], object[3][2])

\* BlockRecord(**block) for one parsed JSON object (62).
LoadBlock(object) ==
    BlockRecord(object[1][2], object[3][2], object[2][2])

\* BlockRecordSet.from_json: the records of the JSON list, here in list
\* order (the frozenset built from them has those members).
from_json(blockrecord_json) ==
    [i \in 1..Len(blockrecord_json) |-> LoadBlock(blockrecord_json[i])]


\* ------------------------------------------------------------------ state
VARIABLES
    vb,      \* VisibleBlocks table, committed rows, in insertion order
    grades,  \* PersistentSubsectionGrade table, committed rows; a row's
             \* position is its primary key id
    pc,      \* pc[w]: the statement worker w executes next
    call,    \* call[w]: the operation w runs and its arguments
    tx,      \* tx[w]: w's open transaction (snapshot and uncommitted writes)
    loc,     \* loc[w]: local variables of the running operation
    ncalls   \* number of calls started so far

vars == << vb, grades, pc, call, tx, loc, ncalls >>

NoHash == << >>

NoArgs ==
    [course_version |-> "none", subtree_edited_date |-> 0,
     earned_all |-> 0, possible_all |-> 0,
     earned_graded |-> 0, possible_graded |-> 0]

\* retry: the call is the caller's second attempt at an update that failed.
NoCall ==
    [op |-> "none", user_id |-> 0, usage_key |-> "none",
     args |-> NoArgs, visible_blocks |-> << >>, retry |-> FALSE]

NoTx == [snap |-> << >>, ins_vb |-> << >>, gw |-> << >>]

\* visible_blocks_hash: the variable of 153-155 and 274-276; model_hashed:
\* hashed of the visible_blocks_model bound at 279; pk: id of the grade
\* loaded at 258; seen: number of grade rows the lookup of a save_grade
\* that found none could read; conflict: the first store resolution raised
\* IntegrityError; err: the exception the operation raised.
NoLoc ==
    [site |-> "none", visible_blocks_hash |-> NoHash, model_hashed |-> NoHash,
     pk |-> 0, seen |-> 0, conflict |-> FALSE, err |-> "none"]

Range(seq) == {seq[i] : i \in 1..Len(seq)}

\* ------------------------------------------------------- storage engine
\* The snapshot w's plain SELECTs read: the one its first read took, or the
\* committed tables if this read is the first.
Snapshot(w) ==
    IF tx[w].snap = << >> THEN [vb |-> vb, grades |-> grades]
    ELSE tx[w].snap[1]

\* Mutant of ViewVB: a SELECT does not see the transaction's own inserts.
ViewVBSnapshotOnly(w) == Range(Snapshot(w).vb)

\* VisibleBlocks rows a SELECT of w sees: its snapshot and its own inserts.
ViewVB(w) == Range(Snapshot(w).vb) \cup Range(tx[w].ins_vb)

\* VisibleBlocks rows an INSERT or a constraint check of w acts on: the
\* latest committed rows and its own inserts.
CurrentVB(w) == Range(vb) \cup Range(tx[w].ins_vb)

\* hashed = models.CharField(max_length=44, unique=True): the rows of a set
\* that carry this hash.
WithHashed(rows, hashed) == {r \in rows : r.hashed = hashed}

\* unique_together = (('user_id', 'course_id', 'usage_key'), ): the ids of
\* the rows of a table that carry this key.
WithUniqueKey(table, user_id, course_id, usage_key) ==
    {i \in 1..Len(table) :
        /\ table[i].user_id = user_id
        /\ table[i].course_id = course_id
        /\ table[i].usage_key = usage_key}

\* Mutant of GetGrade: the lookup filters on user_id alone.
GetGradeByUser(table, user_id, usage_key) ==
    {i \in 1..Len(table) : table[i].user_id = user_id}

\* Mutant of GetGrade: the usage key is compared with the course_id column.
GetGradeByCourse(table, user_id, usage_key) ==
    {i \in 1..Len(table) :
        /\ table[i].user_id = user_id
        /\ table[i].course_id = usage_key}

\* cls.objects.get(user_id=user_id, usage_key=usage_key): the ids matched.
GetGrade(table, user_id, usage_key) ==
    {i \in 1..Len(table) :
        /\ table[i].user_id = user_id
        /\ table[i].usage_key = usage_key}

\* PersistentSubsectionGrade.read (224-238) on a table: the rows returned.
read(table, user_id, usage_key) ==
    {table[i] : i \in GetGrade(table, user_id, usage_key)}

\* An INSERT into VisibleBlocks waits while another transaction holds an
\* uncommitted row with the same unique hash.
VBInsertWaits(w, hashed) ==
    \E o \in Workers \ {w} : WithHashed(Range(tx[o].ins_vb), hashed) # {}

\* A write to the grade table waits while another transaction holds an
\* uncommitted insert of the same unique key or an uncommitted update of
\* the same row.
GradeWriteWaits(w, kind, id, row) ==
    \E o \in Workers \ {w} : \E g \in Range(tx[o].gw) :
        \/ /\ kind = "insert"
           /\ g.kind = "insert"
           /\ g.row.user_id = row.user_id
           /\ g.row.course_id = row.course_id
           /\ g.row.usage_key = row.usage_key
        \/ /\ kind = "update"
           /\ g.kind = "update"
           /\ g.id = id

\* models.ForeignKey(VisibleBlocks, db_column='visible_blocks_hash',
\* to_field='hashed'): the constraint the engine checks on a grade write.
ForeignKeyHolds(w, hashed) == WithHashed(CurrentVB(w), hashed) # {}

\* ----------------------------------------------------------- operations
Init ==
    /\ vb = << >>
    /\ grades = << >>
    /\ pc = [w \in Workers |-> "idle"]
    /\ call = [w \in Workers |-> NoCall]
    /\ tx = [w \in Workers |-> NoTx]
    /\ loc = [w \in Workers |-> NoLoc]
    /\ ncalls = 0

\* First statement of an operation: update and save_grade start with the
\* lookup of the grade (258), create and create_from_blockrecords with the
\* store resolution (148, 91).
FirstStatement(op) ==
    IF op \in {"update", "save_grade"} THEN "update_get" ELSE "goc_get"

\* The call site the first store resolution returns to.
FirstSite(op) ==
    CASE op = "create" -> "create"
      [] op = "create_from_blockrecords" -> "create_from_blockrecords"
      [] OTHER -> "none"

\* An idle worker is handed a request: one of the four operations with its
\* arguments.  `if not isinstance(blocks, BlockRecordSet)` (89, 145, 266)
\* has made the visible blocks a BlockRecordSet.
Call(w, op, user_id, usage_key, args, visible_blocks) ==
    /\ pc[w] = "idle"
    /\ ncalls < MaxCalls
    /\ ncalls' = ncalls + 1
    /\ call' = [call EXCEPT ![w] =
                  [op |-> op, user_id |-> user_id, usage_key |-> usage_key,
                   args |-> args, visible_blocks |-> visible_blocks,
                   retry |-> FALSE]]
    /\ pc' = [pc EXCEPT ![w] = FirstStatement(op)]
    /\ loc' = [loc EXCEPT ![w] = [NoLoc EXCEPT !.site = FirstSite(op)]]
    /\ tx' = [tx EXCEPT ![w] = NoTx]
    /\ UNCHANGED << vb, grades >>

\* The hash create keeps for the grade row (147-155): the returned model's
\* hashed, or after an IntegrityError the hash of the input set itself.
CreateResolvedHash(ok, model_hashed, visible_blocks) ==
    IF ok THEN model_hashed ELSE to_hash(visible_blocks)

\* Mutant of UpdateResolvedHash: the hash of another set of blocks is kept.
UpdateResolvedHashOfOtherSet(ok, model_hashed, visible_blocks) ==
    to_hash(<< BlockRecord("b1", 1, 10), BlockRecord("b2", 1, 5) >>)

\* The hash update keeps from its first resolution (268-276).
UpdateResolvedHash(ok, model_hashed, visible_blocks) ==
    IF ok THEN model_hashed ELSE to_hash(visible_blocks)

\* Mutant of UpdateSecondOutcome: the IntegrityError is logged and not
\* raised again.
UpdateSecondOutcomeSwallowed(ok) == "update_save"

\* Mutant of UpdateSecondOutcome: the raise stands outside the except
\* block and ends update after every second resolution.
UpdateSecondOutcomeAlwaysRaises(ok) == "raised"

\* What update's second resolution leads to (278-282): the save, or the
\* logged IntegrityError raised again.
UpdateSecondOutcome(ok) == IF ok THEN "update_save" ELSE "raised"

\* create_from_blockrecords returns to its call site with the model it got
\* (ok, model_hashed) or with the IntegrityError get_or_create raised.
Resume(w, ok, model_hashed) ==
    LET site == loc[w].site
        blocks == call[w].visible_blocks
    IN CASE site = "create_from_blockrecords" ->
              \* 91-92: return model, or the error propagates
              /\ pc' = [pc EXCEPT ![w] = IF ok THEN "returned" ELSE "raised"]
              /\ loc' = [loc EXCEPT ![w].visible_blocks_hash =
                               IF ok THEN model_hashed ELSE NoHash,
                             ![w].conflict = ~ok,
                             ![w].err = IF ok THEN "none" ELSE "IntegrityError"]
         [] site = "create" ->
              \* 147-155
              /\ pc' = [pc EXCEPT ![w] = "full_clean"]
              /\ loc' = [loc EXCEPT ![w].visible_blocks_hash =
                               CreateResolvedHash(ok, model_hashed, blocks),
                             ![w].conflict = ~ok]
         [] site = "update1" ->
              \* 268-276, then the second resolution starts (279)
              /\ pc' = [pc EXCEPT ![w] = "goc_get"]
              /\ loc' = [loc EXCEPT ![w].visible_blocks_hash =
                               UpdateResolvedHash(ok, model_hashed, blocks),
                             ![w].conflict = ~ok,
                             ![w].site = "update2"]
         [] site = "update2" ->
              \* 278-282
              /\ pc' = [pc EXCEPT ![w] = UpdateSecondOutcome(ok)]
              /\ loc' = [loc EXCEPT ![w].model_hashed =
                               IF ok THEN model_hashed ELSE NoHash,
                             ![w].err =
                               IF ok THEN "none" ELSE "IntegrityError"]

\* get_or_create(hashed=blocks.to_hash(), ...), first half (91): the SELECT
\* by hash.  A row the transaction sees is returned; otherwise the INSERT
\* follows.
goc_get(w) ==
    /\ pc[w] = "goc_get"
    /\ LET hashed == to_hash(call[w].visible_blocks)
           found == WithHashed(ViewVB(w), hashed)
       IN /\ tx' = [tx EXCEPT ![w].snap = << Snapshot(w) >>]
          /\ IF found # {}
             THEN Resume(w, TRUE, (CHOOSE r \in found : TRUE).hashed)
             ELSE /\ pc' = [pc EXCEPT ![w] = "goc_create"]
                  /\ loc' = loc
    /\ UNCHANGED << vb, grades, call, ncalls >>

\* The row get_or_create inserts: hashed=blocks.to_hash() with
\* defaults={'blocks_json': blocks.to_json()} (91).
NewVisibleBlocks(visible_blocks) ==
    [hashed |-> to_hash(visible_blocks),
     blocks_json |-> to_json(visible_blocks)]

\* Mutant of HashedTaken: the duplicate check reads what the transaction
\* sees instead of the latest committed rows.
HashedTakenInSnapshot(w, hashed) == WithHashed(ViewVB(w), hashed) # {}

\* The unique constraint on hashed (105), checked by the INSERT against
\* the latest committed rows and the transaction's own.
HashedTaken(w, hashed) == WithHashed(CurrentVB(w), hashed) # {}

\* get_or_create, second half (91): the INSERT.  On a duplicate hash the
\* engine raises IntegrityError; get_or_create then repeats the SELECT and
\* returns the row if the transaction sees it, and raises the
\* IntegrityError again if it does not.
goc_create(w) ==
    /\ pc[w] = "goc_create"
    /\ LET row == NewVisibleBlocks(call[w].visible_blocks)
           again == WithHashed(ViewVB(w), row.hashed)
       IN /\ ~VBInsertWaits(w, row.hashed)
          /\ IF HashedTaken(w, row.hashed)
             THEN /\ tx' = tx
                  /\ IF again # {}
                     THEN Resume(w, TRUE, (CHOOSE r \in again : TRUE).hashed)
                     ELSE Resume(w, FALSE, NoHash)
             ELSE /\ tx' = [tx EXCEPT ![w].ins_vb = Append(@, row)]
                  /\ Resume(w, TRUE, row.hashed)
    /\ UNCHANGED << vb, grades, call, ncalls >>

\* update, first statement (258-261): cls.objects.get(user_id, usage_key),
\* read from the transaction's snapshot.  No row: DoesNotExist, which
\* save_grade catches to fall back on create with the same arguments
\* (219-222); the source fixes no transaction boundary between the two, so
\* the create reads the snapshot update took (fresh = FALSE) or, run as a
\* transaction of its own, takes a new one (fresh = TRUE).
update_get(w) ==
    /\ pc[w] = "update_get"
    /\ LET snap == Snapshot(w)
           found == GetGrade(snap.grades, call[w].user_id, call[w].usage_key)
       IN \E fresh \in BOOLEAN :
            CASE found = {} /\ call[w].op = "save_grade" ->
                   /\ pc' = [pc EXCEPT ![w] = "goc_get"]
                   /\ loc' = [loc EXCEPT ![w].site = "create",
                                         ![w].seen = Len(snap.grades)]
                   /\ tx' = [tx EXCEPT ![w].snap =
                                IF fresh THEN << >> ELSE << snap >>]
              [] found = {} /\ call[w].op # "save_grade" ->
                   /\ ~fresh
                   /\ pc' = [pc EXCEPT ![w] = "raised"]
                   /\ loc' = [loc EXCEPT ![w].err = "DoesNotExist"]
                   /\ tx' = [tx EXCEPT ![w].snap = << snap >>]
              [] Cardinality(found) > 1 ->
                   /\ ~fresh
                   /\ pc' = [pc EXCEPT ![w] = "raised"]
                   /\ loc' = [loc EXCEPT ![w].err = "MultipleObjectsReturned"]
                   /\ tx' = [tx EXCEPT ![w].snap = << snap >>]
              [] OTHER ->
                   /\ ~fresh
                   /\ pc' = [pc EXCEPT ![w] = "goc_get"]
                   /\ loc' = [loc EXCEPT ![w].site = "update1",
                                         ![w].pk = CHOOSE i \in found : TRUE]
                   /\ tx' = [tx EXCEPT ![w].snap = << snap >>]
    /\ UNCHANGED << vb, grades, call, ncalls >>

\* Mutant of NewGrade: earned_all and possible_all are exchanged.
NewGradeSwapped(c, visible_blocks_hash) ==
    [user_id |-> c.user_id,
     course_id |-> course_key(c.usage_key),
     usage_key |-> c.usage_key,
     course_version |-> c.args.course_version,
     subtree_edited_date |-> c.args.subtree_edited_date,
     earned_all |-> c.args.possible_all,
     possible_all |-> c.args.earned_all,
     earned_graded |-> c.args.earned_graded,
     possible_graded |-> c.args.possible_graded,
     visible_blocks_id |-> visible_blocks_hash]

\* The model instance create builds (157-161): course_id from the usage
\* key, visible_blocks_id the resolved hash, the other fields from kwargs.
NewGrade(c, visible_blocks_hash) ==
    [user_id |-> c.user_id,
     course_id |-> course_key(c.usage_key),
     usage_key |-> c.usage_key,
     course_version |-> c.args.course_version,
     subtree_edited_date |-> c.args.subtree_edited_date,
     earned_all |-> c.args.earned_all,
     possible_all |-> c.args.possible_all,
     earned_graded |-> c.args.earned_graded,
     possible_graded |-> c.args.possible_graded,
     visible_blocks_id |-> visible_blocks_hash]

\* grade.full_clean() (162).  Model.clean_fields validates the foreign key
\* by a SELECT for a VisibleBlocks row with that hashed, and
\* Model.validate_unique checks unique_together by a SELECT for a grade
\* row with the same key; both read what the transaction sees, and either
\* failing raises ValidationError.
FullCleanPasses(w) ==
    LET row == NewGrade(call[w], loc[w].visible_blocks_hash)
    IN /\ WithHashed(ViewVB(w), row.visible_blocks_id) # {}
       /\ WithUniqueKey(Snapshot(w).grades, row.user_id, row.course_id,
                        row.usage_key) = {}

full_clean(w) ==
    /\ pc[w] = "full_clean"
    /\ IF FullCleanPasses(w)
       THEN /\ pc' = [pc EXCEPT ![w] = "create_save"]
            /\ loc' = loc
       ELSE /\ pc' = [pc EXCEPT ![w] = "raised"]
            /\ loc' = [loc EXCEPT ![w].err = "ValidationError"]
    /\ UNCHANGED << vb, grades, call, tx, ncalls >>

\* Mutant of UniqueKeyTaken: the constraint also spans course_version.
UniqueKeyAndVersionTaken(row) ==
    \E i \in WithUniqueKey(grades, row.user_id, row.course_id, row.usage_key) :
        grades[i].course_version = row.course_version

\* The unique constraint on (user_id, course_id, usage_key) (173), checked
\* by the INSERT against the latest committed rows.
UniqueKeyTaken(row) ==
    WithUniqueKey(grades, row.user_id, row.course_id, row.usage_key) # {}

\* grade.save() in create (163): the INSERT of the new row.
\* IntegrityError on a duplicate key or a missing foreign-key target.
create_save(w) ==
    /\ pc[w] = "create_save"
    /\ LET row == NewGrade(call[w], loc[w].visible_blocks_hash)
       IN /\ ~GradeWriteWaits(w, "insert", 0, row)
          /\ IF UniqueKeyTaken(row) \/ ~ForeignKeyHolds(w, row.visible_blocks_id)
             THEN /\ pc' = [pc EXCEPT ![w] = "raised"]
                  /\ loc' = [loc EXCEPT ![w].err = "IntegrityError"]
                  /\ tx' = tx
             ELSE /\ pc' = [pc EXCEPT ![w] = "returned"]
                  /\ loc' = loc
                  /\ tx' = [tx EXCEPT ![w].gw =
                               << [kind |-> "insert", id |-> 0, row |-> row] >>]
    /\ UNCHANGED << vb, grades, call, ncalls >>

\* Mutant of UpdatedGrade: the assignment of earned_graded is missing.
UpdatedGradeStaleScore(grade, c, visible_blocks_hash) ==
    [grade EXCEPT
        !.course_version = c.args.course_version,
        !.subtree_edited_date = c.args.subtree_edited_date,
        !.earned_all = c.args.earned_all,
        !.possible_all = c.args.possible_all,
        !.possible_graded = c.args.possible_graded,
        !.visible_blocks_id = visible_blocks_hash]

\* Mutant of UpdatedGrade: the assignment of visible_blocks_id is missing.
UpdatedGradeKeepingHash(grade, c, visible_blocks_hash) ==
    [grade EXCEPT
        !.course_version = c.args.course_version,
        !.subtree_edited_date = c.args.subtree_edited_date,
        !.earned_all = c.args.earned_all,
        !.possible_all = c.args.possible_all,
        !.earned_graded = c.args.earned_graded,
        !.possible_graded = c.args.possible_graded]

\* Mutant of UpdatedGrade: the assignment of course_version is missing.
UpdatedGradeKeepingVersion(grade, c, visible_blocks_hash) ==
    [grade EXCEPT
        !.subtree_edited_date = c.args.subtree_edited_date,
        !.earned_all = c.args.earned_all,
        !.possible_all = c.args.possible_all,
        !.earned_graded = c.args.earned_graded,
        !.possible_graded = c.args.possible_graded,
        !.visible_blocks_id = visible_blocks_hash]

\* The grade object update loaded (258), with the assignments of 284-290.
UpdatedGrade(grade, c, visible_blocks_hash) ==
    [grade EXCEPT
        !.course_version = c.args.course_version,
        !.subtree_edited_date = c.args.subtree_edited_date,
        !.earned_all = c.args.earned_all,
        !.possible_all = c.args.possible_all,
        !.earned_graded = c.args.earned_graded,
        !.possible_graded = c.args.possible_graded,
        !.visible_blocks_id = visible_blocks_hash]

\* update, 284-291: the assignments and grade.save(), an UPDATE of every
\* column of the row with the loaded primary key.
update_save(w) ==
    /\ pc[w] = "update_save"
    /\ LET row == UpdatedGrade(Snapshot(w).grades[loc[w].pk], call[w],
                               loc[w].visible_blocks_hash)
       IN /\ ~GradeWriteWaits(w, "update", loc[w].pk, row)
          /\ IF ~ForeignKeyHolds(w, row.visible_blocks_id)
             THEN /\ pc' = [pc EXCEPT ![w] = "raised"]
                  /\ loc' = [loc EXCEPT ![w].err = "IntegrityError"]
                  /\ tx' = tx
             ELSE /\ pc' = [pc EXCEPT ![w] = "returned"]
                  /\ loc' = loc
                  /\ tx' = [tx EXCEPT ![w].gw =
                               << [kind |-> "update", id |-> loc[w].pk,
                                   row |-> row] >>]
    /\ UNCHANGED << vb, grades, call, ncalls >>

\* The grade table after a transaction's grade write is published.
ApplyGradeWrite(table, gw) ==
    IF gw = << >> THEN table
    ELSE IF gw[1].kind = "insert" THEN Append(table, gw[1].row)
    ELSE [table EXCEPT ![gw[1].id] = gw[1].row]

\* Mutant of Commit: the grade write is published, the VisibleBlocks rows
\* of the same transaction are lost.
CommitGradeOnly(w) ==
    /\ pc[w] = "returned"
    /\ vb' = vb
    /\ grades' = ApplyGradeWrite(grades, tx[w].gw)
    /\ pc' = [pc EXCEPT ![w] = "idle"]
    /\ call' = [call EXCEPT ![w] = NoCall]
    /\ tx' = [tx EXCEPT ![w] = NoTx]
    /\ loc' = [loc EXCEPT ![w] = NoLoc]
    /\ UNCHANGED ncalls

\* Mutant of Commit: a published VisibleBlocks row takes the place of the
\* latest stored entry.
CommitOverwriting(w) ==
    /\ pc[w] = "returned"
    /\ vb' = IF tx[w].ins_vb # << >> /\ vb # << >>
             THEN [vb EXCEPT ![Len(vb)] = tx[w].ins_vb[1]]
             ELSE vb \o tx[w].ins_vb
    /\ grades' = ApplyGradeWrite(grades, tx[w].gw)
    /\ pc' = [pc EXCEPT ![w] = "idle"]
    /\ call' = [call EXCEPT ![w] = NoCall]
    /\ tx' = [tx EXCEPT ![w] = NoTx]
    /\ loc' = [loc EXCEPT ![w] = NoLoc]
    /\ UNCHANGED ncalls

\* The operation returned: its transaction commits, publishing the
\* VisibleBlocks rows it inserted and its grade write together.
Commit(w) ==
    /\ pc[w] = "returned"
    /\ vb' = vb \o tx[w].ins_vb
    /\ grades' = ApplyGradeWrite(grades, tx[w].gw)
    /\ pc' = [pc EXCEPT ![w] = "idle"]
    /\ call' = [call EXCEPT ![w] = NoCall]
    /\ tx' = [tx EXCEPT ![w] = NoTx]
    /\ loc' = [loc EXCEPT ![w] = NoLoc]
    /\ UNCHANGED ncalls

\* Mutant of Rollback: the VisibleBlocks rows inserted before the failure
\* stay, as they would had each statement committed on its own.
RollbackKeepingInserts(w) ==
    /\ pc[w] = "raised"
    /\ vb' = vb \o tx[w].ins_vb
    /\ pc' = [pc EXCEPT ![w] = "idle"]
    /\ call' = [call EXCEPT ![w] = NoCall]
    /\ tx' = [tx EXCEPT ![w] = NoTx]
    /\ loc' = [loc EXCEPT ![w] = NoLoc]
    /\ UNCHANGED << grades, ncalls >>

\* The operation raised: its transaction is rolled back, and nothing it
\* wrote is published.
Rollback(w) ==
    /\ pc[w] = "raised"
    /\ pc' = [pc EXCEPT ![w] = "idle"]
    /\ call' = [call EXCEPT ![w] = NoCall]
    /\ tx' = [tx EXCEPT ![w] = NoTx]
    /\ loc' = [loc EXCEPT ![w] = NoLoc]
    /\ UNCHANGED << vb, grades, ncalls >>

\* The caller of an update (or save_grade) that failed with the error of
\* the second resolution retries the whole operation from scratch: the
\* failed transaction is rolled back and the same call starts again in a
\* fresh one.  The operations themselves never do this; one retry per call.
RetryUpdate(w) ==
    /\ pc[w] = "raised"
    /\ loc[w].site = "update2"
    /\ loc[w].err = "IntegrityError"
    /\ ~call[w].retry
    /\ call' = [call EXCEPT ![w].retry = TRUE]
    /\ pc' = [pc EXCEPT ![w] = FirstStatement(call[w].op)]
    /\ loc' = [loc EXCEPT ![w] = [NoLoc EXCEPT !.site = FirstSite(call[w].op)]]
    /\ tx' = [tx EXCEPT ![w] = NoTx]
    /\ UNCHANGED << vb, grades, ncalls >>

Next ==
    \E w \in Workers :
        \/ \E op \in Ops \ {"create_from_blockrecords"} :
             \E user_id \in UserIds, usage_key \in UsageKeys :
               \E visible_blocks \in BlockSets :
                 Call(w, op, user_id, usage_key, GradeArgs(w), visible_blocks)
        \/ \E visible_blocks \in BlockSets :
             Call(w, "create_from_blockrecords", 0, "none", NoArgs,
                  visible_blocks)
        \/ update_get(w)
        \/ goc_get(w)
        \/ goc_create(w)
        \/ full_clean(w)
        \/ create_save(w)
        \/ update_save(w)
        \/ Commit(w)
        \/ Rollback(w)
        \/ RetryUpdate(w)

Spec == Init /\ [][Next]_vars


\* ------------------------------------------------------------------ claims
\* Steps of worker w: it leaves the statement it was at.
Steps(w) == pc'[w] # pc[w]

\* The call of worker w ends (its transaction commits or rolls back).
Ends(w) == pc[w] \in {"returned", "raised"} /\ pc'[w] = "idle"

\* Ids of the VisibleBlocks rows of a table that carry this hash.
EntriesWithHash(table, hashed) ==
    {i \in 1..Len(table) : table[i].hashed = hashed}

\* C1: in every reachable state the VisibleBlocks table holds at most one
\* entry per content hash, whatever the interleaving of the workers.
C1_OneEntryPerHash ==
    \A i \in 1..Len(vb) : EntriesWithHash(vb, vb[i].hashed) = {i}

\* C1 witness: two entries are stored and a worker's insert has just been
\* refused as a duplicate of an entry committed by another worker.
C1_Witness ==
    /\ Len(vb) >= 2
    /\ \E w \in Workers : loc[w].conflict

\* C2: in every reachable state the grade table holds at most one row per
\* (user_id, course_id, usage_key).
C2_OneRowPerKey ==
    \A i \in 1..Len(grades) :
        WithUniqueKey(grades, grades[i].user_id, grades[i].course_id,
                      grades[i].usage_key) = {i}

\* C2 witness: a row is stored and a create that did not see it was
\* refused by the unique constraint when it inserted the same key.
C2_Witness ==
    /\ Len(grades) >= 1
    /\ \E w \in Workers :
        /\ pc[w] = "raised"
        /\ loc[w].site = "create"
        /\ loc[w].err = "IntegrityError"
        /\ WithUniqueKey(grades, call[w].user_id, course_key(call[w].usage_key),
                         call[w].usage_key) # {}

\* C3: in every reachable state every stored grade row's visible_blocks_id
\* is the hashed of a stored VisibleBlocks entry, also while and after a
\* create or update took the input set's own hash on a unique-key conflict.
C3_ReferenceResolves ==
    \A i \in 1..Len(grades) :
        EntriesWithHash(vb, grades[i].visible_blocks_id) # {}

\* C3 witness: grade rows are stored and a create or update has taken the
\* input set's own hash after its first resolution hit the conflict.
C3_Witness ==
    /\ Len(grades) >= 1
    /\ \E w \in Workers :
        /\ call[w].op \in {"create", "update", "save_grade"}
        /\ loc[w].conflict
        /\ loc[w].visible_blocks_hash = to_hash(call[w].visible_blocks)

\* Ids of the VisibleBlocks rows of a table whose payload holds the members
\* of this set.
EntriesWithValue(table, visible_blocks) ==
    {i \in 1..Len(table) :
        Members(from_json(table[i].blocks_json)) = Members(visible_blocks)}

\* C4: every create_from_blockrecords call returns, and when it has, exactly
\* one entry is stored for the value of its argument, carrying the hash the
\* call returned: so two calls with value-equal sets, one after the other
\* or interleaved, leave one entry and return the same hash.
C4_ValueEqualCallsShareOneEntry ==
    [][\A w \in Workers :
         (call[w].op = "create_from_blockrecords" /\ Ends(w)) =>
            /\ pc[w] = "returned"
            /\ \E i \in 1..Len(vb') :
                 /\ EntriesWithValue(vb', call[w].visible_blocks) = {i}
                 /\ vb'[i].hashed = loc[w].visible_blocks_hash]_vars

\* The INSERT of update's second resolution is refused as a duplicate and
\* the repeated SELECT does not see the row: the resolution reports the
\* uniqueness conflict.
SecondResolutionConflicts(w) ==
    /\ pc[w] = "goc_create"
    /\ loc[w].site = "update2"
    /\ Steps(w)
    /\ WithHashed(Range(vb), to_hash(call[w].visible_blocks)) # {}

\* C5: when update's second resolution reports the conflict, update raises
\* the IntegrityError without having written the grade row, and the call
\* ends leaving the grade table as it was.
C5_RaceLeavesRowUntouched ==
    [][\A w \in Workers :
         /\ SecondResolutionConflicts(w) =>
               /\ pc'[w] = "raised"
               /\ loc'[w].err = "IntegrityError"
               /\ tx'[w].gw = << >>
               /\ grades' = grades
         /\ (loc[w].site = "update2" /\ loc[w].conflict /\ Ends(w)) =>
               /\ pc[w] = "raised"
               /\ grades' = grades]_vars

\* C5 witness: an update has raised the IntegrityError of its second
\* resolution while the row it was to update is stored.
C5_Witness ==
    \E w \in Workers :
        /\ pc[w] = "raised"
        /\ loc[w].site = "update2"
        /\ loc[w].err = "IntegrityError"
        /\ loc[w].pk \in 1..Len(grades)


\* The unique key of the call of worker w is stored in this table.
KeyStored(table, w) ==
    WithUniqueKey(table, call[w].user_id, course_key(call[w].usage_key),
                  call[w].usage_key) # {}

\* C6: an update whose lookup finds no row for the key raises DoesNotExist
\* having written nothing, and ends without creating a row; a create that
\* ends while a row for its key is stored has failed (ValidationError from
\* full_clean or IntegrityError from the insert) and leaves every stored
\* row as it was.
C6_UpdateAbsentCreatePresentFail ==
    [][\A w \in Workers :
         /\ (/\ call[w].op = "update"
             /\ pc[w] = "update_get"
             /\ Steps(w)
             /\ ~KeyStored(grades, w)) =>
               /\ pc'[w] = "raised"
               /\ loc'[w].err = "DoesNotExist"
               /\ tx'[w].ins_vb = << >>
               /\ tx'[w].gw = << >>
         /\ (call[w].op = "update" /\ loc[w].err = "DoesNotExist" /\ Ends(w)) =>
               /\ grades' = grades
               /\ vb' = vb
         /\ (call[w].op = "create" /\ Ends(w) /\ KeyStored(grades, w)) =>
               /\ pc[w] = "raised"
               /\ loc[w].err \in {"ValidationError", "IntegrityError"}
               /\ grades' = grades]_vars

\* C6 witness: an update has raised DoesNotExist for a key with no row,
\* and a create has failed on a key whose row is stored.
C6_Witness ==
    /\ \E w \in Workers :
        /\ call[w].op = "update"
        /\ pc[w] = "raised"
        /\ loc[w].err = "DoesNotExist"
        /\ ~KeyStored(grades, w)
    /\ \E w \in Workers :
        /\ call[w].op = "create"
        /\ pc[w] = "raised"
        /\ loc[w].err \in {"ValidationError", "IntegrityError"}
        /\ KeyStored(grades, w)

\* C7: a create, update or save_grade call that fails leaves both tables
\* as they were before it ended: nothing it wrote becomes visible.
C7_FailedCallWritesNothing ==
    [][\A w \in Workers :
         (pc[w] = "raised" /\ Ends(w)) =>
            /\ vb' = vb
            /\ grades' = grades]_vars

\* C7 witness: a create has inserted its VisibleBlocks row and then failed
\* on the grade row.
C7_Witness ==
    \E w \in Workers :
        /\ pc[w] = "raised"
        /\ call[w].op \in {"create", "update", "save_grade"}
        /\ tx[w].ins_vb # << >>

\* C8: a create whose store resolution hit the unique-key conflict, and
\* whose key has no row, does not fail: it ends having inserted the grade
\* row with visible_blocks_id equal to the hash of its input set.
C8_CreateSurvivesConflict ==
    [][\A w \in Workers :
         (/\ call[w].op = "create"
          /\ loc[w].conflict
          /\ Ends(w)
          /\ ~KeyStored(grades, w)) =>
            /\ pc[w] = "returned"
            /\ \E row \in read(grades', call[w].user_id, call[w].usage_key) :
                 row.visible_blocks_id = to_hash(call[w].visible_blocks)]_vars

\* The row a call's arguments describe.
ExpectedRow(w) ==
    [user_id |-> call[w].user_id,
     course_id |-> course_key(call[w].usage_key),
     usage_key |-> call[w].usage_key,
     course_version |-> call[w].args.course_version,
     subtree_edited_date |-> call[w].args.subtree_edited_date,
     earned_all |-> call[w].args.earned_all,
     possible_all |-> call[w].args.possible_all,
     earned_graded |-> call[w].args.earned_graded,
     possible_graded |-> call[w].args.possible_graded,
     visible_blocks_id |-> to_hash(call[w].visible_blocks)]

\* C9: a save_grade whose lookup finds no row goes on to create; when a
\* save_grade returns, read gives exactly one row for its key, holding the
\* call's values: a new row if the key had none, and otherwise the same
\* row (same id, table no longer) with its values replaced.
C9_SaveGradeCreatesThenUpdates ==
    [][\A w \in Workers :
         /\ (/\ call[w].op = "save_grade"
             /\ pc[w] = "update_get"
             /\ Steps(w)
             /\ ~KeyStored(grades, w)) =>
               /\ pc'[w] = "goc_get"
               /\ loc'[w].site = "create"
         /\ (call[w].op = "save_grade" /\ pc[w] = "returned" /\ Ends(w)) =>
               /\ read(grades', call[w].user_id, call[w].usage_key)
                    = {ExpectedRow(w)}
               /\ Cardinality(GetGrade(grades', call[w].user_id,
                                       call[w].usage_key)) = 1
               /\ IF KeyStored(grades, w)
                  THEN /\ Len(grades') = Len(grades)
                       /\ GetGrade(grades', call[w].user_id, call[w].usage_key)
                            = GetGrade(grades, call[w].user_id,
                                       call[w].usage_key)
                  ELSE Len(grades') = Len(grades) + 1]_vars

\* C9 witness: a save_grade is about to replace the values of the row an
\* earlier save_grade created with other scores.
C9_Witness ==
    \E w \in Workers :
        /\ call[w].op = "save_grade"
        /\ pc[w] = "returned"
        /\ tx[w].gw # << >>
        /\ tx[w].gw[1].kind = "update"
        /\ loc[w].pk \in 1..Len(grades)
        /\ grades[loc[w].pk].earned_all # call[w].args.earned_all

\* C10: when a create returns, read(user_id, usage_key) gives one row,
\* whose fields are the create arguments, course_id the course of the
\* usage key and visible_blocks_id the hash of the supplied visible blocks.
C10_ReadAfterCreate ==
    [][\A w \in Workers :
         (call[w].op = "create" /\ pc[w] = "returned" /\ Ends(w)) =>
            /\ ~KeyStored(grades, w)
            /\ read(grades', call[w].user_id, call[w].usage_key)
                 = {ExpectedRow(w)}]_vars

\* C10 witness: a create on a key with no row has inserted its row and
\* returned.
C10_Witness ==
    \E w \in Workers :
        /\ call[w].op = "create"
        /\ pc[w] = "returned"
        /\ tx[w].gw # << >>
        /\ ~KeyStored(grades, w)

\* C11: two BlockRecordSet objects with the same member records, whatever
\* the order they were built or are iterated in, give the same to_json and
\* the same to_hash: any two running calls whose visible blocks have the
\* same members serialise and hash them identically.
C11_SameMembersSameJsonAndHash ==
    \A w \in Workers : \A o \in Workers :
        (/\ call[w].op # "none"
         /\ call[o].op # "none"
         /\ Members(call[w].visible_blocks) = Members(call[o].visible_blocks)) =>
            /\ to_json(call[w].visible_blocks) = to_json(call[o].visible_blocks)
            /\ to_hash(call[w].visible_blocks) = to_hash(call[o].visible_blocks)

\* C12: from_json(to_json(S)) has exactly the members of S, for the visible
\* blocks S of every running call; and the payload a call has inserted for
\* S loads back (VisibleBlocks.blocks, 115-121) to the members of S.
C12_RoundTrip ==
    \A w \in Workers :
        call[w].op # "none" =>
            /\ Members(from_json(to_json(call[w].visible_blocks)))
                 = Members(call[w].visible_blocks)
            /\ \A i \in 1..Len(tx[w].ins_vb) :
                 Members(from_json(tx[w].ins_vb[i].blocks_json))
                   = Members(call[w].visible_blocks)

\* C12 witness: a call has inserted the payload of a set of two records
\* that share a locator and differ in weight.
C12_Witness ==
    \E w \in Workers :
        /\ tx[w].ins_vb # << >>
        /\ Len(call[w].visible_blocks) = 2
        /\ call[w].visible_blocks[1].locator = call[w].visible_blocks[2].locator
        /\ call[w].visible_blocks[1].weight # call[w].visible_blocks[2].weight

\* C13: the VisibleBlocks table is append-only: every step of every
\* operation keeps each stored entry, with its hashed and its blocks_json,
\* and the table never shrinks.
C13_AppendOnly ==
    [][/\ Len(vb') >= Len(vb)
       /\ \A i \in 1..Len(vb) :
            \E j \in 1..Len(vb') :
                /\ vb'[j].hashed = vb[i].hashed
                /\ vb'[j].blocks_json = vb[i].blocks_json]_vars

\* C13 witness: an entry is stored and a call that resolved another set is
\* about to publish its own entry.
C13_Witness ==
    /\ Len(vb) >= 1
    /\ \E w \in Workers :
        /\ pc[w] = "returned"
        /\ tx[w].ins_vb # << >>

\* C14: when an update (also the update of a save_grade) has succeeded,
\* the row it loaded holds the call's course_version, subtree_edited_date,
\* four scores and the hash of its visible blocks, keeps its user_id,
\* course_id and usage_key, and the table has the same number of rows, all
\* others unchanged.
C14_UpdateOverwritesMutableFieldsOnly ==
    [][\A w \in Workers :
         (loc[w].site = "update2" /\ pc[w] = "returned" /\ Ends(w)) =>
            /\ Len(grades') = Len(grades)
            /\ loc[w].pk \in 1..Len(grades)
            /\ grades'[loc[w].pk] =
                 [grades[loc[w].pk] EXCEPT
                    !.course_version = call[w].args.course_version,
                    !.subtree_edited_date = call[w].args.subtree_edited_date,
                    !.earned_all = call[w].args.earned_all,
                    !.possible_all = call[w].args.possible_all,
                    !.earned_graded = call[w].args.earned_graded,
                    !.possible_graded = call[w].args.possible_graded,
                    !.visible_blocks_id = to_hash(call[w].visible_blocks)]
            /\ \A j \in 1..Len(grades) :
                 j # loc[w].pk => grades'[j] = grades[j]]_vars

\* C14 witness: an update has succeeded on a row that holds another
\* version and another hash, while a row for another key is stored.
C14_Witness ==
    \E w \in Workers :
        /\ loc[w].site = "update2"
        /\ pc[w] = "returned"
        /\ Len(grades) >= 2
        /\ loc[w].pk \in 1..Len(grades)
        /\ grades[loc[w].pk].visible_blocks_id # to_hash(call[w].visible_blocks)
        /\ grades[loc[w].pk].course_version # call[w].args.course_version

\* C15: update resolves the store twice in sequence for the same visible
\* blocks (269, 279), and the visible_blocks_id of the row a successful
\* update writes is the hashed of the entry its second resolution
\* returned, an entry the transaction can read.
C15_WrittenHashIsSecondResolutions ==
    [][\A w \in Workers :
         /\ (loc[w].site = "update1" /\ loc'[w].site # "update1") =>
               /\ loc'[w].site = "update2"
               /\ pc'[w] = "goc_get"
               /\ call'[w] = call[w]
         /\ (pc[w] = "update_save" /\ pc'[w] = "returned") =>
               /\ tx'[w].gw # << >>
               /\ tx'[w].gw[1].row.visible_blocks_id = loc[w].model_hashed
               /\ WithHashed(ViewVB(w), loc[w].model_hashed) # {}
         /\ (loc[w].site = "update2" /\ pc[w] = "returned" /\ Ends(w)) =>
               grades'[loc[w].pk].visible_blocks_id = loc[w].model_hashed]_vars

\* C15 witness: an update has written its row after its first resolution
\* inserted the entry and its second resolution read that entry back.
C15_Witness ==
    \E w \in Workers :
        /\ loc[w].site = "update2"
        /\ pc[w] = "returned"
        /\ tx[w].ins_vb # << >>
        /\ tx[w].gw # << >>
        /\ loc[w].model_hashed = tx[w].ins_vb[1].hashed

\* update raises the IntegrityError of its second resolution (282).
RaceErrorRaised(w) ==
    /\ loc[w].site = "update2"
    /\ pc[w] = "goc_create"
    /\ pc'[w] = "raised"

C17_RetryAfterRaceSucceeds ==
    [][\A w \in Workers :
         /\ (pc'[w] = "update_get" /\ pc[w] # "update_get") =>
               /\ pc[w] \in {"idle", "raised"}
               /\ pc[w] = "raised" => (call'[w].retry /\ ~call[w].retry)
         /\ (call[w].retry /\ pc[w] = "goc_get" /\ Steps(w)) =>
               pc'[w] # "goc_create"
         /\ (call[w].retry /\ Ends(w)) =>
               /\ pc[w] = "returned"
               /\ read(grades', call[w].user_id, call[w].usage_key)
                    = {ExpectedRow(w)}]_vars

\* C17 witness: the retry of an update that had failed with the error of
\* the second resolution has written the row and returned.
C17_Witness ==
    \E w \in Workers :
        /\ call[w].retry
        /\ pc[w] = "returned"
        /\ tx[w].gw # << >>

\* C18: every VisibleBlocks row, stored or inserted by a running
\* transaction, carries as hashed the digest of its own blocks_json.
C18_HashedIsDigestOfPayload ==
    /\ \A i \in 1..Len(vb) : vb[i].hashed = Sha256Base64(vb[i].blocks_json)
    /\ \A w \in Workers : \A i \in 1..Len(tx[w].ins_vb) :
          tx[w].ins_vb[i].hashed = Sha256Base64(tx[w].ins_vb[i].blocks_json)

\* C18 witness: three entries are stored, two of them with payloads that
\* hold the same records in different orders.
C18_Witness ==
    /\ Len(vb) >= 3
    /\ \E i \in 1..Len(vb) : \E j \in 1..Len(vb) :
          /\ i # j
          /\ Members(from_json(vb[i].blocks_json))
               = Members(from_json(vb[j].blocks_json))

\* C19: every step that adds a grade row or changes a stored one is the
\* end of one successful call, and the row then holds exactly that call's
\* course_version, subtree_edited_date, four scores and hash: no row ever
\* mixes the fields of two calls.
C19_NoTornUpdate ==
    [][\A i \in 1..Len(grades') :
         (i > Len(grades) \/ grades'[i] # grades[i]) =>
            \E w \in Workers :
                /\ Ends(w)
                /\ pc[w] = "returned"
                /\ grades'[i] = ExpectedRow(w)]_vars

\* C19 witness: two workers update the same row at once: one has written
\* it and not yet committed, the other is at its save.
C19_Witness ==
    \E w \in Workers : \E o \in Workers \ {w} :
        /\ loc[w].site = "update2"
        /\ loc[o].site = "update2"
        /\ loc[w].pk = loc[o].pk
        /\ pc[w] = "returned"
        /\ pc[o] = "update_save"

\* The fallback create of a save_grade fails on the unique key: at the
\* INSERT (IntegrityError), or in full_clean when the transaction can read
\* a row with the key (ValidationError).
DuplicateKeyFailure(w) ==
    /\ call[w].op = "save_grade"
    /\ loc[w].site = "create"
    /\ pc'[w] = "raised"
    /\ \/ pc[w] = "create_save"
       \/ pc[w] = "full_clean" /\ KeyStored(Snapshot(w).grades, w)

\* C20: when the fallback create of a save_grade fails on the unique key,
\* every stored row with the key was added after the lookup of that
\* save_grade (rows are never deleted, so its id is larger than the number
\* of rows the lookup could read) and this call wrote no grade row; when
\* the call ends, the key has exactly one row and it holds the values of
\* another worker's call.
C20_DuplicateOnlyFromConcurrentCreate ==
    [][\A w \in Workers :
         /\ DuplicateKeyFailure(w) =>
               /\ KeyStored(grades, w)
               /\ \A i \in WithUniqueKey(grades, call[w].user_id,
                                          course_key(call[w].usage_key),
                                          call[w].usage_key) :
                     i > loc[w].seen
               /\ tx'[w].gw = << >>
         /\ (/\ call[w].op = "save_grade"
             /\ loc[w].site = "create"
             /\ pc[w] = "raised"
             /\ Ends(w)
             /\ KeyStored(grades, w)) =>
               /\ Cardinality(WithUniqueKey(grades', call[w].user_id,
                                            course_key(call[w].usage_key),
                                            call[w].usage_key)) = 1
               /\ \A row \in read(grades', call[w].user_id, call[w].usage_key) :
                     \E o \in Workers \ {w} :
                        /\ row.course_version = GradeArgs(o).course_version
                        /\ row.subtree_edited_date
                             = GradeArgs(o).subtree_edited_date
                        /\ row.earned_all = GradeArgs(o).earned_all
                        /\ row.possible_all = GradeArgs(o).possible_all
                        /\ row.earned_graded = GradeArgs(o).earned_graded
                        /\ row.possible_graded = GradeArgs(o).possible_graded]_vars

\* C20 witness: the fallback create of a save_grade was refused by the
\* unique key, the row having been added after its lookup.
C20_Witness ==
    \E w \in Workers :
        /\ call[w].op = "save_grade"
        /\ loc[w].site = "create"
        /\ pc[w] = "raised"
        /\ loc[w].err = "IntegrityError"
        /\ KeyStored(grades, w)
        /\ Len(grades) > loc[w].seen

====
